---- MODULE Spec2Model ----
(***************************************************************************)
(* Food-delivery time prediction: the training pipeline of                 *)
(* model/train_model.py and the DeliveryTimePredictor of model/predict.py. *)
(*                                                                         *)
(* Numbers are fixed point.  Ratings, distances (km) and times (minutes)   *)
(* are held in tenths: 42 is 4.2.  distance_squared and                    *)
(* rating_distance_interaction are therefore in hundredths.  Quotients     *)
(* that the code computes in floating point are kept exact as fractions    *)
(* [n, d] wherever a claim rounds or compares them.                        *)
(***************************************************************************)
EXTENDS Integers, Sequences, FiniteSets, TLC

(* ------------------------------ bounds -------------------------------- *)

\* rows drawn by generate_sample_data (the script draws 50000)
NSamples == 4
\* trees of the forest (the script fits 100)
NTrees == 2
\* train_model runs in one behaviour
MaxRuns == 2

(* --------------------------- generic helpers -------------------------- *)

None == <<>>

Some(v) == <<v>>

Abs(x) == IF x < 0 THEN 0 - x ELSE x

Max(a, b) == IF a >= b THEN a ELSE b

Range(s) == {s[i] : i \in DOMAIN s}

RECURSIVE SumSeq(_)
SumSeq(s) == IF s = <<>> THEN 0 ELSE Head(s) + SumSeq(Tail(s))

\* floor of the square root, as a fixed-point stand-in for np.sqrt / np.std
RECURSIVE ISqrtBetween(_, _, _)
ISqrtBetween(v, lo, hi) ==
    IF lo >= hi THEN lo
    ELSE LET mid == (lo + hi + 1) \div 2
         IN  IF mid * mid <= v THEN ISqrtBetween(v, mid, hi)
             ELSE ISqrtBetween(v, lo, mid - 1)

ISqrt(v) == IF v <= 0 THEN 0 ELSE ISqrtBetween(v, 0, 40000)

\* ceil(n / d) for d > 0
CeilDiv(n, d) == 0 - ((0 - n) \div d)

\* Python's round() on the exact fraction n / d (d > 0): ties go to even
RoundHalfEven(n, d) ==
    LET q == n \div d
        r == n - q * d
    IN  IF 2 * r < d THEN q
        ELSE IF 2 * r > d THEN q + 1
        ELSE IF q % 2 = 0 THEN q ELSE q + 1

\* the order Python gives the category strings (sorted(), np.unique)
AlphaOrder ==
    << "afternoon", "bicycle", "bike", "clear", "cloudy", "delicate",
       "drone", "evening", "fog", "heavy_rain", "light_rain", "morning",
       "night", "normal", "storm", "weekday", "weekend" >>

StrRank(s) == CHOOSE i \in DOMAIN AlphaOrder : AlphaOrder[i] = s

\* the strings of S in ascending order
RECURSIVE SortStrings(_)
SortStrings(S) ==
    IF S = {} THEN <<>>
    ELSE LET lo == CHOOSE x \in S : \A y \in S : StrRank(x) <= StrRank(y)
         IN  <<lo>> \o SortStrings(S \ {lo})

(* ---------------------------- data frames ----------------------------- *)

\* A frame is [cols: the column names in order, rows: a sequence of rows],
\* each row a function from the column names to values.

Field_rating == "delivery_person_rating"

Field_distance == "distance_km"

Field_prep == "preparation_time"

categorical_cols ==
    << "vehicle_type", "order_type", "weather_condition",
       "time_of_day", "day_of_week" >>

Encoded(col) == col \o "_encoded"

HasCol(df, col) == col \in Range(df.cols)

Column(df, col) == [i \in DOMAIN df.rows |-> df.rows[i][col]]

\* df[col] = values (one value per row); an existing column is overwritten
SetCol(df, col, values) ==
    [cols |-> IF HasCol(df, col) THEN df.cols ELSE Append(df.cols, col),
     rows |-> [i \in DOMAIN df.rows |->
                 [c \in (DOMAIN df.rows[i]) \cup {col} |->
                    IF c = col THEN values[i] ELSE df.rows[i][c]]]]

\* df[col] = scalar
SetColScalar(df, col, v) == SetCol(df, col, [i \in DOMAIN df.rows |-> v])

\* df[cols]: the named columns in the named order, each row a vector
Select(df, cols) ==
    [cols |-> cols,
     rows |-> [i \in DOMAIN df.rows |->
                 [k \in DOMAIN cols |-> df.rows[i][cols[k]]]]]

MkRow(rating, distance, prep, vehicle, order, weather, tod, dow) ==
    [c \in { Field_rating, Field_distance, Field_prep, "vehicle_type",
             "order_type", "weather_condition", "time_of_day",
             "day_of_week" } |->
        CASE c = Field_rating -> rating
          [] c = Field_distance -> distance
          [] c = Field_prep -> prep
          [] c = "vehicle_type" -> vehicle
          [] c = "order_type" -> order
          [] c = "weather_condition" -> weather
          [] c = "time_of_day" -> tod
          [] c = "day_of_week" -> dow]

RecordCols ==
    << Field_rating, Field_distance, Field_prep, "vehicle_type",
       "order_type", "weather_condition", "time_of_day", "day_of_week" >>

(* ====================== model/train_model.py ========================== *)

\* generate_sample_data: the raw draws of the seeded generator, then
\* distance_km = |distance_km| and preparation_time = max(preparation_time, 5)
generate_sample_data(draws) ==
    [cols |-> RecordCols,
     rows |-> [i \in DOMAIN draws |->
                 [c \in DOMAIN draws[i] |->
                    IF c = Field_distance THEN Abs(draws[i][c])
                    ELSE IF c = Field_prep THEN Max(draws[i][c], 50)
                    ELSE draws[i][c]]]]

\* weather_delays.get(weather, 0) of calculate_delivery_time, in minutes
label_weather_delay(weather) ==
    CASE weather = "clear" -> 0
      [] weather = "cloudy" -> 1
      [] weather = "light_rain" -> 3
      [] weather = "heavy_rain" -> 8
      [] weather = "storm" -> 15
      [] OTHER -> 0

\* time_delays.get(time_of_day, 0), in minutes
label_time_delay(tod) ==
    CASE tod = "morning" -> 2
      [] tod = "afternoon" -> 1
      [] tod = "evening" -> 4
      [] tod = "night" -> 0
      [] OTHER -> 0

\* base_speed, tenths of a minute per km
label_base_speed(row) == IF row["vehicle_type"] = "bike" THEN 35 ELSE 50

\* efficiency = (rating / 5) * 0.8 + 0.2, as a fraction
label_efficiency(row) == [n |-> 8 * row[Field_rating] + 100, d |-> 500]

\* travel_time = distance_km * base_speed / efficiency, minutes as a fraction
label_travel_time(row) ==
    LET eff == label_efficiency(row)
    IN  [n |-> (row[Field_distance] * label_base_speed(row) * eff.d) \div 100,
         d |-> eff.n]

\* total_time of one row before the floor, in tenths (noise in tenths)
label_total_time(row, noise) ==
    LET tt == label_travel_time(row)
        k == label_weather_delay(row["weather_condition"])
             + (IF row["order_type"] = "delicate" THEN 3 ELSE 0)
             + label_time_delay(row["time_of_day"])
        wf == IF row["day_of_week"] = "weekend" THEN 9 ELSE 10
    IN  ((row[Field_prep] * tt.d + 10 * tt.n + 10 * k * tt.d) * wf)
            \div (10 * tt.d) + noise

\* mutant: the label is not floored
label_no_floor(total) == total

\* delivery_times.append(max(total_time, 10))
label_floor(total) == Max(total, 100)

calculate_delivery_time(df, noise) ==
    [i \in DOMAIN df.rows |-> label_floor(label_total_time(df.rows[i], noise[i]))]

\* LabelEncoder.fit: classes_ are the distinct values, sorted
LabelEncoder_fit(values) == [classes_ |-> SortStrings(Range(values))]

\* LabelEncoder.fit_transform: each value's rank among the distinct values
LabelEncoder_fit_transform(values) ==
    [i \in DOMAIN values |->
        Cardinality({v \in Range(values) : StrRank(v) < StrRank(values[i])})]

feature_cols ==
    << "delivery_person_rating", "distance_km", "preparation_time",
       "vehicle_type_encoded", "order_type_encoded",
       "weather_condition_encoded", "time_of_day_encoded",
       "day_of_week_encoded", "distance_squared",
       "rating_distance_interaction" >>

RECURSIVE EncodeTrainingCols(_, _)
EncodeTrainingCols(df, k) ==
    IF k = 0 THEN df
    ELSE LET prev == EncodeTrainingCols(df, k - 1)
             col == categorical_cols[k]
         IN  SetCol(prev, Encoded(col),
                    LabelEncoder_fit_transform(Column(prev, col)))

\* preprocess_features: (X, label_encoders)
preprocess_features(df) ==
    LET enc == EncodeTrainingCols(df, Len(categorical_cols))
        sq == SetCol(enc, "distance_squared",
                     [i \in DOMAIN enc.rows |->
                        enc.rows[i][Field_distance] * enc.rows[i][Field_distance]])
        full == SetCol(sq, "rating_distance_interaction",
                       [i \in DOMAIN sq.rows |->
                          sq.rows[i][Field_rating] * sq.rows[i][Field_distance]])
    IN  [X |-> Select(full, feature_cols),
         label_encoders |->
            [c \in Range(categorical_cols) |-> LabelEncoder_fit(Column(df, c))]]

\* the members of s whose index is in idx, in order
RECURSIVE PickRows(_, _, _)
PickRows(s, idx, i) ==
    IF i > Len(s) THEN <<>>
    ELSE (IF i \in idx THEN <<s[i]>> ELSE <<>>) \o PickRows(s, idx, i + 1)

\* test_size = 0.2, in tenths
test_size == 2

\* train_test_split sizes: n_test = ceil(test_size * n)
n_test(n) == CeilDiv(n * test_size, 10)

n_train(n) == n - n_test(n)

\* StandardScaler.fit: per-column mean and standard deviation (a zero scale
\* is replaced by 1)
StandardScaler_fit(rows) ==
    LET n == Len(rows)
        cols == DOMAIN feature_cols
        mean == [k \in cols |-> SumSeq([i \in 1..n |-> rows[i][k]]) \div n]
        var == [k \in cols |->
                  SumSeq([i \in 1..n |->
                            (rows[i][k] - mean[k]) * (rows[i][k] - mean[k])]) \div n]
    IN  [mean_ |-> mean,
         scale_ |-> [k \in cols |-> IF ISqrt(var[k]) = 0 THEN 1 ELSE ISqrt(var[k])]]

\* StandardScaler.transform: (x - mean) / scale, in hundredths
StandardScaler_transform(scaler, rows) ==
    [i \in DOMAIN rows |->
        [k \in DOMAIN rows[i] |->
            ((rows[i][k] - scaler.mean_[k]) * 100) \div scaler.scale_[k]]]

\* One regression tree fit on its bootstrap sample (boot: the row drawn at
\* each of the n draws).  A node with fewer than min_samples_split = 5 rows
\* is not split, so for the training sets of this model (fewer than five
\* training rows) every tree is a single leaf holding the mean label of its
\* bootstrap sample.
Tree_fit(y, boot) ==
    [value |-> SumSeq([j \in DOMAIN boot |-> y[boot[j]]]) \div Len(boot)]

RandomForestRegressor_fit(y, boots) ==
    [estimators_ |-> [t \in DOMAIN boots |-> Tree_fit(y, boots[t])]]

Tree_predict(tree, x) == tree.value

\* the trees' predictions for one row, summed (n_estimators times the mean)
Forest_sum(model, x) ==
    SumSeq([t \in DOMAIN model.estimators_ |->
              Tree_predict(model.estimators_[t], x)])

\* model.predict for one row: the mean of the trees' predictions
RandomForestRegressor_predict(model, x) ==
    Forest_sum(model, x) \div Len(model.estimators_)

\* float('nan')
NaN == -1

\* mean_absolute_error, sqrt(mean_squared_error), r2_score on the test rows
Metrics(y_test, y_pred) ==
    LET n == Len(y_test)
        err == [i \in 1..n |-> y_test[i] - y_pred[i]]
        ybar == SumSeq(y_test) \div n
        ssres == SumSeq([i \in 1..n |-> err[i] * err[i]])
        sstot == SumSeq([i \in 1..n |-> (y_test[i] - ybar) * (y_test[i] - ybar)])
    IN  [mae |-> SumSeq([i \in 1..n |-> Abs(err[i])]) \div n,
         rmse |-> ISqrt(ssres \div n),
         r2 |-> IF n < 2 THEN NaN
                ELSE IF sstot = 0 THEN (IF ssres = 0 THEN 1000 ELSE 0)
                ELSE 1000 - (ssres * 1000) \div sstot]

\* train_model up to the bundle it builds.  rng is what the seeded
\* generators produce: the raw draws, the label noise, the rows the split
\* puts in the test set and each tree's bootstrap sample; now is the clock.
model_artifacts_of(rng, now) ==
    LET df == generate_sample_data(rng.draws)
        y == calculate_delivery_time(df, rng.noise)
        pf == preprocess_features(df)
        all == 1..Len(df.rows)
        X_train == PickRows(pf.X.rows, all \ rng.test, 1)
        X_test == PickRows(pf.X.rows, rng.test, 1)
        y_train == PickRows(y, all \ rng.test, 1)
        y_test == PickRows(y, rng.test, 1)
        scaler == StandardScaler_fit(X_train)
        X_test_scaled == StandardScaler_transform(scaler, X_test)
        model == RandomForestRegressor_fit(y_train, rng.boots)
        y_pred == [i \in DOMAIN X_test_scaled |->
                     RandomForestRegressor_predict(model, X_test_scaled[i])]
    IN  [model |-> model,
         scaler |-> scaler,
         label_encoders |-> pf.label_encoders,
         feature_columns |-> pf.X.cols,
         metrics |-> Metrics(y_test, y_pred),
         feature_importance |->
            [k \in DOMAIN pf.X.cols |-> [feature |-> pf.X.cols[k], importance |-> 0]],
         training_date |-> now,
         training_samples |-> Len(X_train)]

\* the metadata document written to model_metadata.json
metadata_of(artifacts, now, n) ==
    [model_version |-> "1.0.0",
     training_date |-> now,
     training_samples |-> artifacts.training_samples,
     test_samples |-> n - artifacts.training_samples,
     metrics |-> artifacts.metrics,
     features |-> artifacts.feature_columns,
     target |-> "delivery_time_minutes"]

(* ========================= model/predict.py =========================== *)

\* An input is [kind, cols, rows]: kind "dict" (one row, its keys in cols),
\* "frame" (a pandas DataFrame) or "other" (any other type).
\* An operation ends in [kind |-> "return", value, warnings] or in
\* [kind |-> "raise", exc, msg, warnings].

Return(v, warnings) == [kind |-> "return", value |-> v, warnings |-> warnings]

Raise(exc, msg, warnings) ==
    [kind |-> "raise", exc |-> exc, msg |-> msg, warnings |-> warnings]

\* str(KeyError(key))
KeyErrorMsg(key) == "'" \o key \o "'"

\* mutant: the encoder is fit again on the values it is given
LabelEncoder_refit(le, values) ==
    [ok |-> TRUE, codes |-> LabelEncoder_fit_transform(values)]

\* LabelEncoder.transform: the position of each value in classes_; a value
\* that is not among classes_ makes it raise ValueError
LabelEncoder_transform(le, values) ==
    IF \E i \in DOMAIN values : values[i] \notin Range(le.classes_)
    THEN [ok |-> FALSE, codes |-> <<>>]
    ELSE [ok |-> TRUE,
          codes |-> [i \in DOMAIN values |->
                       (CHOOSE j \in DOMAIN le.classes_ :
                            le.classes_[j] = values[i]) - 1]]

\* mutant: the default code is -1
unseen_minus_one(values) == [i \in DOMAIN values |-> 0 - 1]

\* what the except ValueError branch assigns to df[col + '_encoded']
unseen_default(values) == [i \in DOMAIN values |-> 0]

UnseenWarning(col) ==
    "Warning: Unseen category in " \o col \o ". Using default encoding."

\* the loop over categorical_cols; st is [df, warnings]
RECURSIVE EncodeInputCols(_, _, _)
EncodeInputCols(label_encoders, st, k) ==
    IF k = 0 THEN st
    ELSE LET prev == EncodeInputCols(label_encoders, st, k - 1)
             col == categorical_cols[k]
             t == LabelEncoder_transform(label_encoders[col],
                                         Column(prev.df, col))
         IN  IF ~HasCol(prev.df, col) THEN prev
             ELSE IF t.ok
             THEN [df |-> SetCol(prev.df, Encoded(col), t.codes),
                   warnings |-> prev.warnings]
             ELSE [df |-> SetCol(prev.df, Encoded(col),
                                 unseen_default(Column(prev.df, col))),
                   warnings |-> Append(prev.warnings, UnseenWarning(col))]

\* "Ensure all required columns exist": a missing feature column is set to 0
RECURSIVE FillMissing(_, _, _)
FillMissing(df, cols, k) ==
    IF k = 0 THEN df
    ELSE LET prev == FillMissing(df, cols, k - 1)
         IN  IF HasCol(prev, cols[k]) THEN prev
             ELSE SetColScalar(prev, cols[k], 0)

\* the feature engineering and column selection of preprocess_input
engineer_features(model_artifacts, st) ==
    IF ~HasCol(st.df, Field_distance)
    THEN Raise("KeyError", KeyErrorMsg(Field_distance), st.warnings)
    ELSE IF ~HasCol(st.df, Field_rating)
    THEN Raise("KeyError", KeyErrorMsg(Field_rating), st.warnings)
    ELSE LET sq == SetCol(st.df, "distance_squared",
                          [i \in DOMAIN st.df.rows |->
                             st.df.rows[i][Field_distance]
                             * st.df.rows[i][Field_distance]])
             full == SetCol(sq, "rating_distance_interaction",
                            [i \in DOMAIN sq.rows |->
                               sq.rows[i][Field_rating]
                               * sq.rows[i][Field_distance]])
             cols == model_artifacts[1].feature_columns
         IN  Return(Select(FillMissing(full, cols, Len(cols)), cols),
                    st.warnings)

preprocess_input(model_artifacts, input_data) ==
    IF model_artifacts = None
    THEN Raise("ValueError", "Model not loaded. Cannot preprocess input.", <<>>)
    ELSE IF input_data.kind \notin {"dict", "frame"}
    THEN Raise("ValueError",
               "Input data must be a dictionary or pandas DataFrame", <<>>)
    ELSE engineer_features(model_artifacts,
            EncodeInputCols(model_artifacts[1].label_encoders,
                            [df |-> [cols |-> input_data.cols,
                                     rows |-> input_data.rows],
                             warnings |-> <<>>],
                            Len(categorical_cols)))

\* the exception types the except clause of predict catches
ExceptionTypes == {"ValueError", "KeyError", "TypeError", "IndexError"}

\* mutant: except ValueError instead of except Exception
catches_value_error_only(exc) == exc = "ValueError"

predict_catches(exc) == exc \in ExceptionTypes

\* np.std over the trees times the number of trees, for one row
Forest_spread(model, x) ==
    LET n == Len(model.estimators_)
        sq == SumSeq([t \in 1..n |->
                        Tree_predict(model.estimators_[t], x)
                        * Tree_predict(model.estimators_[t], x)])
        s == Forest_sum(model, x)
    IN  ISqrt(n * sq - s * s)

\* 1 - prediction_std / prediction, in thousandths (numpy: x / 0 is inf,
\* 0 / 0 is nan)
one_minus_ratio(std, prediction) ==
    IF prediction = 0
    THEN (IF std = 0 THEN NaN ELSE 0 - 1000000)
    ELSE 1000 - (std * 1000) \div prediction

\* np.maximum(0.6, v): nan stays nan
confidence_of(v) == IF v = NaN THEN NaN ELSE Max(600, v)

\* the try block of predict; an exception the except clause catches is
\* re-raised as ValueError("Prediction failed: " + str(e))
predict_try(model_artifacts, input_data) ==
    LET X == preprocess_input(model_artifacts, input_data)
    IN  IF X.kind = "raise"
        THEN (IF predict_catches(X.exc)
              THEN Raise("ValueError", "Prediction failed: " \o X.msg,
                         X.warnings)
              ELSE X)
        ELSE LET model == model_artifacts[1].model
                 X_scaled == StandardScaler_transform(
                                 model_artifacts[1].scaler, X.value.rows)
                 x == X_scaled[1]
             IN  Return(
                   [estimated_time |->
                       RandomForestRegressor_predict(model, x),
                    confidence |->
                       confidence_of(one_minus_ratio(
                           Forest_spread(model, x), Forest_sum(model, x))),
                    prediction_std |->
                       Forest_spread(model, x) \div Len(model.estimators_)],
                   X.warnings)

\* mutant: predict without its own not-loaded check
predict_unguarded(model_artifacts, input_data) ==
    predict_try(model_artifacts, input_data)

predict(model_artifacts, input_data) ==
    IF model_artifacts = None
    THEN Raise("ValueError", "Model not loaded. Cannot make predictions.", <<>>)
    ELSE predict_try(model_artifacts, input_data)

\* mutant: predict calls scaler.fit_transform, re-fitting the bundle's scaler
artifacts_after_refit(model_artifacts, input_data) ==
    IF model_artifacts = None THEN model_artifacts
    ELSE LET X == preprocess_input(model_artifacts, input_data)
         IN  IF X.kind = "raise" THEN model_artifacts
             ELSE Some([model_artifacts[1] EXCEPT
                           !.scaler = StandardScaler_fit(X.value.rows)])

\* self.model_artifacts after predict: scaler.transform and model.predict
\* read the bundle and assign nothing
artifacts_after_predict(model_artifacts, input_data) == model_artifacts

\* params.get(key, default)
Get(params, key, default) ==
    IF key \in DOMAIN params THEN params[key] ELSE default

\* weather_delays.get(weather, 0), in minutes
weather_delay_of(weather) ==
    CASE weather = "clear" -> 0
      [] weather = "cloudy" -> 1
      [] weather = "light_rain" -> 3
      [] weather = "heavy_rain" -> 8
      [] weather = "storm" -> 15
      [] OTHER -> 0

\* mutant: the two speeds swapped
base_speed_swapped(vehicle) == IF vehicle = "bike" THEN 50 ELSE 35

\* base_speed = 3.5 if vehicle == 'bike' else 5.0
base_speed_of(vehicle) == IF vehicle = "bike" THEN 35 ELSE 50

\* the parameters the breakdown reads, with their defaults
breakdown_params(params) ==
    [prep_time |-> Get(params, Field_prep, 150),
     distance |-> Get(params, Field_distance, 30),
     rating |-> Get(params, Field_rating, 40),
     vehicle |-> Get(params, "vehicle_type", "bike"),
     weather |-> Get(params, "weather_condition", "clear")]

\* travel_time = distance * base_speed / efficiency, minutes as a fraction
travel_time_of(p) ==
    LET eff == [n |-> 8 * p.rating + 100, d |-> 500]
    IN  [n |-> (p.distance * base_speed_of(p.vehicle) * eff.d) \div 100,
         d |-> eff.n]

\* max(0, estimated_time - prep_time - travel_time - weather_delay), minutes
\* as a fraction
remaining_time_of(estimated_time, p) ==
    LET tt == travel_time_of(p)
    IN  [n |-> Max(0, (estimated_time - p.prep_time
                       - 10 * weather_delay_of(p.weather)) * tt.d - 10 * tt.n),
         d |-> 10 * tt.d]

predict_with_breakdown(model_artifacts, input_data) ==
    LET base_prediction == predict(model_artifacts, input_data)
        p == breakdown_params(input_data.rows[1])
        tt == travel_time_of(p)
        rem == remaining_time_of(base_prediction.value.estimated_time, p)
    IN  IF base_prediction.kind = "raise" THEN base_prediction
        ELSE Return(
               [estimated_time |-> base_prediction.value.estimated_time,
                confidence |-> base_prediction.value.confidence,
                prediction_std |-> base_prediction.value.prediction_std,
                breakdown |->
                   [preparation_time |-> RoundHalfEven(p.prep_time, 10),
                    travel_time |-> RoundHalfEven(tt.n, tt.d),
                    weather_delay |-> weather_delay_of(p.weather),
                    traffic_and_other |-> RoundHalfEven(rem.n, rem.d)],
                factors |->
                   [delivery_person_rating |-> p.rating,
                    vehicle_type |-> p.vehicle,
                    distance_km |-> p.distance,
                    weather_condition |-> p.weather]],
               base_prediction.warnings)

\* feature_importance[:5]
Top5(s) == SubSeq(s, 1, IF Len(s) < 5 THEN Len(s) ELSE 5)

get_model_info(model_artifacts) ==
    IF model_artifacts = None
    THEN Return([error |-> "Model not loaded"], <<>>)
    ELSE Return(
           [model_loaded |-> TRUE,
            training_date |-> model_artifacts[1].training_date,
            training_samples |-> model_artifacts[1].training_samples,
            metrics |-> model_artifacts[1].metrics,
            features |-> model_artifacts[1].feature_columns,
            feature_importance |-> Top5(model_artifacts[1].feature_importance)],
           <<>>)

(* ============================ the inputs ============================== *)

\* the two sample orders of predict.py's example run
Order1 == MkRow(42, 35, 150, "bike", "normal", "clear", "evening", "weekday")

Order2 ==
    MkRow(38, 72, 250, "bicycle", "delicate", "light_rain", "afternoon",
          "weekend")

\* a storm order whose preparation time rounds at a tie (12.5 minutes)
Order3 == MkRow(25, 50, 125, "bike", "delicate", "storm", "night", "weekday")

\* further draws of the generator: a raw preparation time below the floor and
\* a zero distance; a top-rated rider in heavy rain
Draw4 == MkRow(10, 0, 20, "bike", "normal", "cloudy", "night", "weekend")

Draw5 == MkRow(50, 10, 50, "bicycle", "normal", "heavy_rain", "morning", "weekday")

Draw6 == MkRow(30, 0, 50, "bike", "normal", "clear", "night", "weekday")

With(row, col, v) == [c \in DOMAIN row |-> IF c = col THEN v ELSE row[c]]

Without(cols, col) == SelectSeq(cols, LAMBDA c : c # col)

Reverse(s) == [i \in DOMAIN s |-> s[Len(s) + 1 - i]]

\* the dict holding the fields cols of row, in that order
Dict(row, cols) ==
    [kind |-> "dict", cols |-> cols,
     rows |-> << [c \in Range(cols) |-> row[c]] >>]

Frame(rows) == [kind |-> "frame", cols |-> RecordCols, rows |-> rows]

OtherInput == [kind |-> "other", cols |-> <<>>, rows |-> <<>>]

DictInputs ==
    { Dict(Order1, RecordCols), Dict(Order2, RecordCols),
      Dict(Order3, RecordCols), Dict(Order2, Reverse(RecordCols)),
      Dict(With(Order1, "vehicle_type", "drone"), RecordCols),
      Dict(With(Order2, "weather_condition", "fog"), RecordCols),
      Dict(Order1, <<>>) }
    \cup { Dict(Order1, Without(RecordCols, c)) : c \in Range(RecordCols) }

FrameInputs ==
    { Frame(<<Order1, Order2>>),
      Frame(<<Order1, With(Order2, "vehicle_type", "drone")>>),
      Frame(<<With(Order2, "weather_condition", "fog"), Order1>>) }

Inputs == DictInputs \cup FrameInputs \cup {OtherInput}

(* ------------------- outcomes of the seeded generators ---------------- *)

Pool == << Order1, Order2, Draw4, Draw6, Draw5, Order3 >>

DrawsFrom(offset) ==
    [i \in 1..NSamples |-> Pool[((i - 1 + offset) % Len(Pool)) + 1]]

ConstNoise(v) == [i \in 1..NSamples |-> v]

TestFirst == 1..n_test(NSamples)

TestLast == (n_train(NSamples) + 1)..NSamples

\* a bootstrap sample that draws every training row once
BootAll == [j \in 1..n_train(NSamples) |-> j]

\* a bootstrap sample that draws training row k every time
BootOne(k) == [j \in 1..n_train(NSamples) |-> k]

BootChoices == {BootAll} \cup {BootOne(k) : k \in 1..n_train(NSamples)}

\* label noise drawn for a row, in tenths of a minute (normal(0, 2))
NoiseValues == {0 - 60, 25}

\* the outcomes that the single-call specification starts from
AllOutcomes ==
    { [draws |-> DrawsFrom(o),
       noise |-> [i \in 1..NSamples |-> IF i % 2 = 1 THEN a ELSE b],
       test |-> t, boots |-> bs] :
         o \in 0..(Len(Pool) - 1), a \in NoiseValues, b \in NoiseValues,
         t \in {TestFirst, TestLast}, bs \in [1..NTrees -> BootChoices] }

\* the outcomes that the lifecycle specification starts from
SeedOutcomes ==
    { [draws |-> DrawsFrom(0), noise |-> ConstNoise(0), test |-> TestLast,
       boots |-> [t \in 1..NTrees |-> IF t = 1 THEN BootAll ELSE BootOne(1)]],
      [draws |-> DrawsFrom(1), noise |-> ConstNoise(0 - 60), test |-> TestFirst,
       boots |-> [t \in 1..NTrees |-> BootOne(((t - 1) % 2) + 1)]] }

(* ========================= the state machine ========================== *)

VARIABLES
    rng,              \* what the seeded generators produce (seed 42)
    clock,            \* datetime.now(), one tick per train_model run
    train_pc,         \* where train_model is
    artifacts,        \* train_model's model_artifacts, once built
    pkl_file,         \* delivery_time_model.pkl on disk
    metadata_file,    \* model_metadata.json on disk
    model_artifacts,  \* the predictor's self.model_artifacts
    last              \* the predictor's last call: [op, input, out]

vars ==
    << rng, clock, train_pc, artifacts, pkl_file, metadata_file,
       model_artifacts, last >>

Absent == [kind |-> "absent", data |-> None]

Partial == [kind |-> "partial", data |-> None]

Complete(bundle) == [kind |-> "complete", data |-> Some(bundle)]

\* joblib.load(model_path) inside load_model's try: the bundle, or None
\* after FileNotFoundError (no file) or any other exception (a file that
\* does not unpickle)
load_result(file) == IF file.kind = "complete" THEN file.data ELSE None

load_message(file) ==
    CASE file.kind = "complete" -> "Model loaded successfully"
      [] file.kind = "absent" -> "Model file not found"
      [] OTHER -> "Error loading model"

Init ==
    /\ rng \in SeedOutcomes
    /\ clock = 0
    /\ train_pc = "idle"
    /\ artifacts = None
    /\ pkl_file = Absent
    /\ metadata_file = None
    /\ model_artifacts = load_result(Absent)
    /\ last = [op |-> "__init__", input |-> OtherInput,
               out |-> Return(load_message(Absent), <<>>)]

trainVars == << rng, clock, train_pc, artifacts, pkl_file, metadata_file >>

(* ------------------------------ train_model --------------------------- *)

\* train_model from its start to the built model_artifacts dict
TrainBuild ==
    /\ train_pc \in {"idle", "done", "failed"}
    /\ clock < MaxRuns
    /\ clock' = clock + 1
    /\ artifacts' = Some(model_artifacts_of(rng, clock + 1))
    /\ train_pc' = "built"
    /\ UNCHANGED << rng, pkl_file, metadata_file, model_artifacts, last >>

\* joblib.dump opens delivery_time_model.pkl for writing: the file is
\* created or truncated in place
DumpOpen ==
    /\ train_pc = "built"
    /\ pkl_file' = Partial
    /\ train_pc' = "dumping"
    /\ UNCHANGED << rng, clock, artifacts, metadata_file, model_artifacts, last >>

\* joblib.dump writes the pickle to its end and returns
DumpFinish ==
    /\ train_pc = "dumping"
    /\ pkl_file' = Complete(artifacts[1])
    /\ train_pc' = "dumped"
    /\ UNCHANGED << rng, clock, artifacts, metadata_file, model_artifacts, last >>

\* the metadata is written to model_metadata.json and train_model returns
WriteMetadata ==
    /\ train_pc = "dumped"
    /\ metadata_file' = Some(metadata_of(artifacts[1], clock, NSamples))
    /\ train_pc' = "done"
    /\ UNCHANGED << rng, clock, artifacts, pkl_file, model_artifacts, last >>

\* an exception (an I/O error, a full disk) ends train_model where it is;
\* nothing is cleaned up
TrainFail ==
    /\ train_pc \in {"built", "dumping", "dumped"}
    /\ train_pc' = "failed"
    /\ UNCHANGED << rng, clock, artifacts, pkl_file, metadata_file,
                    model_artifacts, last >>

(* ------------------------- DeliveryTimePredictor ----------------------- *)

load_model ==
    /\ model_artifacts' = load_result(pkl_file)
    /\ last' = [op |-> "load_model", input |-> OtherInput,
                out |-> Return(load_message(pkl_file), <<>>)]
    /\ UNCHANGED trainVars

CallPreprocessInput ==
    \E input_data \in Inputs :
        /\ last' = [op |-> "preprocess_input", input |-> input_data,
                    out |-> preprocess_input(model_artifacts, input_data)]
        /\ UNCHANGED << trainVars, model_artifacts >>

CallPredict ==
    \E input_data \in Inputs :
        /\ last' = [op |-> "predict", input |-> input_data,
                    out |-> predict(model_artifacts, input_data)]
        /\ model_artifacts' = artifacts_after_predict(model_artifacts, input_data)
        /\ UNCHANGED trainVars

CallPredictWithBreakdown ==
    \E input_data \in Inputs :
        /\ last' = [op |-> "predict_with_breakdown", input |-> input_data,
                    out |-> predict_with_breakdown(model_artifacts, input_data)]
        /\ UNCHANGED << trainVars, model_artifacts >>

CallGetModelInfo ==
    /\ last' = [op |-> "get_model_info", input |-> OtherInput,
                out |-> get_model_info(model_artifacts)]
    /\ UNCHANGED << trainVars, model_artifacts >>

Next ==
    \/ TrainBuild
    \/ DumpOpen
    \/ DumpFinish
    \/ WriteMetadata
    \/ TrainFail
    \/ load_model
    \/ CallPreprocessInput
    \/ CallPredict
    \/ CallPredictWithBreakdown
    \/ CallGetModelInfo

Spec == Init /\ [][Next]_vars

(* -------- one training run, one construction, one call ---------------- *)

\* train_model has completed once, under any outcome of the generators, and
\* a predictor has then been constructed over the file it wrote
InitPure ==
    /\ rng \in AllOutcomes
    /\ clock = 1
    /\ train_pc = "done"
    /\ artifacts = Some(model_artifacts_of(rng, 1))
    /\ pkl_file = Complete(artifacts[1])
    /\ metadata_file = Some(metadata_of(artifacts[1], 1, NSamples))
    /\ model_artifacts = load_result(pkl_file)
    /\ last = [op |-> "__init__", input |-> OtherInput,
               out |-> Return(load_message(pkl_file), <<>>)]

FirstPreprocessInput == last.op = "__init__" /\ CallPreprocessInput

FirstPredict == last.op = "__init__" /\ CallPredict

NextPure == FirstPreprocessInput \/ FirstPredict

SpecPure == InitPure /\ [][NextPure]_vars

(* ============================== claims ================================ *)

Loaded == model_artifacts # None

StartsWith(msg, prefix) ==
    /\ Len(msg) >= Len(prefix)
    /\ SubSeq(msg, 1, Len(prefix)) = prefix

PredictorOps == {"preprocess_input", "predict", "predict_with_breakdown"}

\* the position of a feature column in a selected frame
ColIndex(cols, name) == CHOOSE k \in DOMAIN cols : cols[k] = name

\* an input that carries all eight fields of an Order Record in every row
IsOrderRecord(input_data) ==
    /\ input_data.kind \in {"dict", "frame"}
    /\ Range(input_data.cols) = Range(RecordCols)

\* C1: while the predictor holds no bundle, preprocess_input, predict and
\* predict_with_breakdown raise a ValueError whose message begins
\* "Model not loaded" for every input, and get_model_info returns exactly
\* {"error": "Model not loaded"}.
C1_NotLoadedIsReported ==
    ~Loaded =>
        /\ last.op \in PredictorOps =>
              /\ last.out.kind = "raise"
              /\ last.out.exc = "ValueError"
              /\ StartsWith(last.out.msg, "Model not loaded")
        /\ last.op = "get_model_info" =>
              /\ last.out.kind = "return"
              /\ last.out.value = [error |-> "Model not loaded"]

\* a load of a half-written file has failed and a prediction was then asked
C1_Witness ==
    /\ ~Loaded
    /\ pkl_file.kind = "partial"
    /\ last.op = "predict_with_breakdown"
    /\ last.input = Dict(Order1, RecordCols)
    /\ last.out.kind = "raise"

\* C2: on a loaded predictor predict either returns estimated_time,
\* confidence and prediction_std, or raises ValueError with the message
\* "Prediction failed: " followed by the message of the exception that
\* preprocessing raised; no other exception type reaches the caller.
C2_PredictWrapsFailures ==
    (Loaded /\ last.op = "predict") =>
        \/ /\ last.out.kind = "return"
           /\ DOMAIN last.out.value =
                 {"estimated_time", "confidence", "prediction_std"}
        \/ /\ last.out.kind = "raise"
           /\ last.out.exc = "ValueError"
           /\ preprocess_input(model_artifacts, last.input).kind = "raise"
           /\ last.out.msg = "Prediction failed: "
                 \o preprocess_input(model_artifacts, last.input).msg

\* a KeyError of preprocessing reached the caller as the wrapped ValueError
C2_Witness ==
    /\ Loaded
    /\ last.op = "predict"
    /\ last.out.kind = "raise"
    /\ last.out.msg = "Prediction failed: 'distance_km'"

\* the feature columns that are computed from an input field
DerivedFrom(field) ==
    CASE field = Field_rating -> {Field_rating, "rating_distance_interaction"}
      [] field = Field_distance ->
            {Field_distance, "distance_squared", "rating_distance_interaction"}
      [] field = Field_prep -> {Field_prep}
      [] OTHER -> {Encoded(field)}

\* C3: on a loaded predictor a dict lacking any field behind a feature
\* column is non-fatal for preprocess_input: it returns a row with every
\* column of feature_columns, and the columns that could not be taken from
\* the input hold 0.
C3_MissingFieldIsZeroFilled ==
    (Loaded /\ last.op = "preprocess_input" /\ last.input.kind = "dict") =>
        /\ last.out.kind = "return"
        /\ last.out.value.cols = model_artifacts[1].feature_columns
        /\ \A f \in Range(RecordCols) \ Range(last.input.cols) :
              \A c \in DerivedFrom(f) :
                 last.out.value.rows[1][ColIndex(last.out.value.cols, c)] = 0

\* the categorical fields of an input that hold a value the persisted
\* encoder never saw, in some row
UnseenFields(input_data) ==
    {c \in Range(categorical_cols) :
        \E i \in DOMAIN input_data.rows :
            input_data.rows[i][c]
                \notin Range(model_artifacts[1].label_encoders[c].classes_)}

\* C4: on a loaded predictor, for an Order Record (or a batch of them) with a
\* categorical value the encoder never saw, preprocess_input and predict
\* return normally, the field's encoded feature is 0 and the warning for
\* that field is emitted.
C4_UnseenCategoryIsDefaulted ==
    (Loaded /\ last.op \in {"preprocess_input", "predict"}
            /\ IsOrderRecord(last.input)) =>
        \A c \in UnseenFields(last.input) :
            /\ last.out.kind = "return"
            /\ UnseenWarning(c) \in Range(last.out.warnings)
            /\ last.op = "preprocess_input" =>
                  \A i \in DOMAIN last.out.value.rows :
                     last.out.value.rows[i]
                        [ColIndex(last.out.value.cols, Encoded(c))] = 0

\* vehicle_type = "drone" went through predict to a normal result
C4_Witness ==
    /\ Loaded
    /\ last.op = "predict"
    /\ last.input = Dict(With(Order1, "vehicle_type", "drone"), RecordCols)
    /\ "vehicle_type" \in UnseenFields(last.input)
    /\ last.out.kind = "return"
    /\ last.out.value.estimated_time >= 100

\* C5: whenever predict returns, 0.6 <= confidence <= 1.0 (thousandths:
\* 600..1000); the spread of the trees is not negative and the estimate,
\* a mean of labels floored at 10 minutes, is positive.
C5_ConfidenceInRange ==
    (last.op \in {"predict", "predict_with_breakdown"}
        /\ last.out.kind = "return") =>
        /\ last.out.value.confidence >= 600
        /\ last.out.value.confidence <= 1000
        /\ last.out.value.prediction_std >= 0
        /\ last.out.value.estimated_time > 0

\* the trees disagree and the confidence lies strictly inside the range
C5_Witness ==
    /\ last.op = "predict"
    /\ last.out.kind = "return"
    /\ last.out.value.prediction_std > 0
    /\ last.out.value.confidence > 600
    /\ last.out.value.confidence < 1000

\* C6: train_model is all-or-nothing for delivery_time_model.pkl: when a
\* run has failed, no half-written file is left on disk and the file does
\* not hold the bundle of the failed run.
C6_AllOrNothing ==
    train_pc = "failed" =>
        /\ pkl_file.kind # "partial"
        /\ pkl_file.kind = "complete" =>
              pkl_file.data[1].training_date # clock

\* the input's vehicle_type is 'bike' (a dict without the field has none)
InputIsBike(row) ==
    "vehicle_type" \in DOMAIN row /\ row["vehicle_type"] = "bike"

\* round(distance_km * (3.5 if vehicle_type is bike else 5.0)
\*       / ((rating / 5) * 0.8 + 0.2)) read off the input
InputTravel(row) ==
    [n |-> 5 * row[Field_distance] * (IF InputIsBike(row) THEN 35 ELSE 50),
     d |-> 8 * row[Field_rating] + 100]

\* C7 as claimed: for every dict input on which predict_with_breakdown
\* returns, preparation_time, weather_delay and travel_time of the
\* breakdown are the rounded ground-truth values of the input's own fields,
\* and traffic_and_other is the rounded non-negative residual.
C7_BreakdownFromInput ==
    (last.op = "predict_with_breakdown" /\ last.input.kind = "dict"
        /\ last.out.kind = "return") =>
        LET row == last.input.rows[1]
            b == last.out.value.breakdown
            tt == InputTravel(row)
        IN  /\ Field_prep \in DOMAIN row =>
                  b.preparation_time = RoundHalfEven(row[Field_prep], 10)
            /\ "weather_condition" \in DOMAIN row =>
                  b.weather_delay = label_weather_delay(row["weather_condition"])
            /\ b.travel_time = RoundHalfEven(tt.n, tt.d)
            /\ (Field_prep \in DOMAIN row /\ "weather_condition" \in DOMAIN row) =>
                  b.traffic_and_other =
                     RoundHalfEven(
                        Max(0, (last.out.value.estimated_time - row[Field_prep]
                                - 10 * label_weather_delay(row["weather_condition"]))
                               * tt.d - 10 * tt.n),
                        10 * tt.d)
            /\ b.traffic_and_other >= 0

\* the input completed with the defaults the breakdown falls back on
WithDefaults(row) ==
    [c \in (DOMAIN row) \cup {Field_prep, "vehicle_type", "weather_condition"} |->
        IF c \in DOMAIN row THEN row[c]
        ELSE CASE c = Field_prep -> 150
               [] c = "vehicle_type" -> "bike"
               [] OTHER -> "clear"]

\* C7 amended: for every dict input on which predict_with_breakdown
\* returns, the breakdown is the ground-truth formula of train_model.py
\* applied to the input with a missing preparation_time, vehicle_type or
\* weather_condition replaced by 15, 'bike' or 'clear': rounded preparation
\* time, table weather delay (0 outside the table), rounded travel time,
\* and the rounded residual max(0, estimate - the three), never negative.
C7_BreakdownFromInputOrDefaults ==
    (last.op = "predict_with_breakdown" /\ last.input.kind = "dict"
        /\ last.out.kind = "return") =>
        LET row == WithDefaults(last.input.rows[1])
            b == last.out.value.breakdown
            tt == label_travel_time(row)
            wd == label_weather_delay(row["weather_condition"])
            rest == (last.out.value.estimated_time - row[Field_prep] - 10 * wd)
                        * tt.d - 10 * tt.n
        IN  /\ b.preparation_time = RoundHalfEven(row[Field_prep], 10)
            /\ b.weather_delay = wd
            /\ b.travel_time = RoundHalfEven(tt.n, tt.d)
            /\ b.traffic_and_other = RoundHalfEven(Max(0, rest), 10 * tt.d)
            /\ b.traffic_and_other >= 0

\* a dict without vehicle_type got a breakdown, with a positive residual
C7_Witness ==
    /\ last.op = "predict_with_breakdown"
    /\ last.input = Dict(Order1, Without(RecordCols, "vehicle_type"))
    /\ last.out.kind = "return"
    /\ last.out.value.breakdown.travel_time = 14
    /\ last.out.value.breakdown.traffic_and_other > 0

\* C8 as claimed: once the predictor holds a bundle, no step (load_model
\* included) replaces, clears or changes it.
C8_BundleNeverChanges ==
    [][Loaded => model_artifacts' = model_artifacts]_vars

\* C8 amended: once the predictor holds a bundle, every step other than a
\* load_model call leaves it exactly as it is, whether the call returns or
\* raises and whatever train_model does to the file meanwhile.
C8_BundleChangesOnlyOnLoad ==
    [][(Loaded /\ ~load_model) => model_artifacts' = model_artifacts]_vars

\* the predictor still holds its bundle after a failed call, while the file
\* on disk is being rewritten
C8_Witness ==
    /\ Loaded
    /\ pkl_file.kind = "partial"
    /\ last.op = "predict"
    /\ last.out.kind = "raise"

\* the feature vector preprocess_features gives a record at training time:
\* its row when it is encoded together with the training data
TrainingVector(row) ==
    LET df == generate_sample_data(rng.draws)
        pf == preprocess_features(
                  [cols |-> df.cols, rows |-> Append(df.rows, row)])
    IN  pf.X.rows[Len(pf.X.rows)]

\* C9: for a single Order Record with all eight fields whose categorical
\* values were all observed in training, preprocess_input returns the ten
\* training columns in the training order, holding exactly the vector that
\* preprocess_features computes for the record, whatever the order of the
\* fields in the input.
C9_EncodingMatchesTraining ==
    (Loaded /\ last.op = "preprocess_input" /\ last.input.kind = "dict"
        /\ IsOrderRecord(last.input) /\ UnseenFields(last.input) = {}) =>
        /\ last.out.kind = "return"
        /\ last.out.value.cols = feature_cols
        /\ last.out.value.rows[1] = TrainingVector(last.input.rows[1])
        /\ last.out.warnings = <<>>

\* a record given with its fields in reverse order was encoded; its
\* categoricals got non-zero codes
C9_Witness ==
    /\ Loaded
    /\ last.op = "preprocess_input"
    /\ last.input = Dict(Order2, Reverse(RecordCols))
    /\ UnseenFields(last.input) = {}
    /\ last.out.kind = "return"
    /\ last.out.value.rows[1][ColIndex(feature_cols, "order_type_encoded")] = 0
    /\ last.out.value.rows[1][ColIndex(feature_cols, "day_of_week_encoded")] = 1

\* C10: the encoded row of each record of a batch equals the row the same
\* record gets when it is submitted alone as a dict.
C10_RowIndependent ==
    (Loaded /\ last.op = "preprocess_input" /\ last.input.kind = "frame"
        /\ last.out.kind = "return") =>
        \A i \in DOMAIN last.input.rows :
            LET alone == preprocess_input(model_artifacts,
                                          Dict(last.input.rows[i], RecordCols))
            IN  /\ alone.kind = "return"
                /\ last.out.value.rows[i] = alone.value.rows[1]

====
